---- MODULE Spec2Model ----
(***************************************************************************)
(* pgCarpenter create-backup (src/unnamed/part_000): the control thread of *)
(* createBackup, the walker that runs inside uploadFiles, the pool of      *)
(* backupWorker goroutines, the hand-off channel filesC and the object     *)
(* store.  Strings that the code inspects (paths, prefixes, keys) are      *)
(* sequences of one-character strings, so that strings.TrimPrefix,         *)
(* strings.HasPrefix and filepath.Join are computed, not assumed.          *)
(*                                                                         *)
(* src/create_backup.go is the same file at a revision without the storage *)
(* interface, the existence check and the directory placeholders; the      *)
(* model follows part_000 and the comments point out where the two differ. *)
(* Storage faults are explicit: every GetString, PutString and Put may     *)
(* return an error, and a failed write stores nothing.  A crash is not an  *)
(* action: every reachable state is a state the process may stop in.       *)
(*                                                                         *)
(* part_000 passes "false" as the third argument of pg_start_backup and    *)
(* has no exclusive mode; src/create_backup.go has the --exclusive flag.   *)
(* A run with exclusive = TRUE takes startBackup and stopBackup from       *)
(* src/create_backup.go (the connection is closed after pg_start_backup,   *)
(* pg_stop_backup() runs on a new one, no artifact is uploaded, no         *)
(* heartbeat goroutine) and everything else from part_000.                 *)
(***************************************************************************)
EXTENDS Integers, Sequences, FiniteSets, TLC

\* ------------------------------------------------------------------ bounds
\* size of the worker pool (*a.nWorkers)
NWorkers == 2

\* ------------------------------------------------------- program constants
\* default of --compress-threshold, 512 * 1024
CompressThreshold == 524288

\* ---------------------------------------------------------------- strings
Sep == <<"/">>

\* strings.HasPrefix(s, p)
HasPrefix(s, p) == /\ Len(p) <= Len(s)
                   /\ SubSeq(s, 1, Len(p)) = p

\* strings.TrimPrefix(s, p)
TrimPrefix(s, p) == IF HasPrefix(s, p) THEN SubSeq(s, Len(p) + 1, Len(s)) ELSE s

\* filepath.Clean on paths without "." and ".." elements: runs of separators
\* collapse to one and a trailing separator is dropped (the root "/" stays)
RECURSIVE Collapse(_)
Collapse(s) == IF Len(s) < 2 THEN s
               ELSE IF s[1] = "/" /\ s[2] = "/" THEN Collapse(Tail(s))
               ELSE <<s[1]>> \o Collapse(Tail(s))

Clean(s) == LET c == Collapse(s)
            IN  IF Len(c) > 1 /\ c[Len(c)] = "/" THEN SubSeq(c, 1, Len(c) - 1) ELSE c

\* filepath.Join(a, b): empty elements are dropped, the others are joined
\* with one separator and the result is cleaned
Join(a, b) == IF b = <<>> THEN Clean(a)
              ELSE IF a = <<>> THEN Clean(b)
              ELSE Clean(a \o Sep \o b)

\* var prefixesNotToBackup = []string{"log", "pg_xlog", "postmaster.pid", "pg_replslot"}
prefixesNotToBackup ==
    << <<"l","o","g">>,
       <<"p","g","_","x","l","o","g">>,
       <<"p","o","s","t","m","a","s","t","e","r",".","p","i","d">>,
       <<"p","g","_","r","e","p","l","s","l","o","t">> >>

\* ignoreFile: true iff some entry of prefixesNotToBackup is a prefix of path
ignoreFile(path) ==
    \E i \in 1..Len(prefixesNotToBackup) : HasPrefix(path, prefixesNotToBackup[i])

\* util.DirectoryExtension, the suffix of a directory placeholder
DirectoryExtension == <<".","d","i","r">>

\* lz4.Extension, the suffix of a compressed object
Lz4Extension == <<".","l","z","4">>

\* successfullyCompletedFolder, the namespace of the success markers
successfullyCompletedFolder == <<"s","u","c","c","e","s","s","f","u","l">>

\* latestKey, the key of the latest pointer
latestKey == <<"L","A","T","E","S","T">>

\* *a.backupName of this run, and the name of an earlier, completed backup
backupName == <<"m","y","B","a","c","k","u","p">>
oldName    == <<"o","l","d">>

\* *a.pgDataDirectory, with the trailing separator the prefixes are written for
pgDataDirectory == <<"/","d","/">>

\* backupKey := *a.backupName + "/"
backupKey == backupName \o Sep

\* getSuccessfulMarker: filepath.Join(successfullyCompletedFolder, backupName)
getSuccessfulMarker(name) == Join(successfullyCompletedFolder, name)

\* key := *a.backupName + "/backup_label" and "/tablespace_map" (stopBackup)
labelKey == backupName \o <<"/","b","a","c","k","u","p","_","l","a","b","e","l">>
mapKey   == backupName \o <<"/","t","a","b","l","e","s","p","a","c","e","_","m","a","p">>

\* ------------------------------------------------------------- data directory
\* An entry of the data directory: its path relative to the root, its kind,
\* its size in bytes, whether the running server may remove it during the
\* backup (volatile), and whether reading it may fail with an error other
\* than not-exist (guarded).  Entries are listed in the lexical order
\* filepath.Walk visits.
Dir(rel, guarded) ==
    [rel |-> rel, kind |-> "dir", size |-> 0, volatile |-> FALSE, guarded |-> guarded]
File(rel, size, volatile) ==
    [rel |-> rel, kind |-> "file", size |-> size, volatile |-> volatile, guarded |-> FALSE]

\* the scenario of the specification: base/1/16384 of 2 MiB, pg_replslot/,
\* pg_wal/000000010000000000000001
ScenarioTree ==
    << Dir(<<>>, FALSE),
       Dir(<<"b","a","s","e">>, FALSE),
       Dir(<<"b","a","s","e","/","1">>, FALSE),
       File(<<"b","a","s","e","/","1","/","1","6","3","8","4">>, 2097152, TRUE),
       Dir(<<"p","g","_","r","e","p","l","s","l","o","t">>, FALSE),
       Dir(<<"p","g","_","w","a","l">>, FALSE),
       File(<<"p","g","_","w","a","l","/","0","0","0","0","0","0","0","1","0","0","0","0",
              "0","0","0","0","0","0","0","0","0","0","0","0","0","1">>, 16777216, FALSE) >>

\* a pre-10 data directory: files below, at and above the threshold, an
\* empty directory, and entries under each ignore prefix
LegacyTree ==
    << Dir(<<>>, FALSE),
       File(<<"P","G","_","V","E","R","S","I","O","N">>, 3, TRUE),
       File(<<"c","o","r","e">>, 2097152, FALSE),
       Dir(<<"l","o","g">>, TRUE),
       File(<<"l","o","g","/","a">>, 10, FALSE),
       File(<<"p","g","_","h","b","a",".","c","o","n","f">>, CompressThreshold, TRUE),
       Dir(<<"p","g","_","t","b","l","s","p","c">>, FALSE),
       Dir(<<"p","g","_","x","l","o","g">>, FALSE),
       File(<<"p","g","_","x","l","o","g","/","1">>, 16777216, FALSE),
       File(<<"p","o","s","t","m","a","s","t","e","r",".","p","i","d">>, 80, FALSE) >>

\* the data directory during an exclusive backup (src/create_backup.go):
\* pg_start_backup has written backup_label into it
ExclusiveTree ==
    << Dir(<<>>, FALSE),
       File(<<"b","a","c","k","u","p","_","l","a","b","e","l">>, 226, FALSE),
       File(<<"c","o","r","e">>, 2097152, FALSE) >>

Trees == << ScenarioTree, LegacyTree, ExclusiveTree >>

\* the path filepath.Walk passes to the callback: the root as given, every
\* other entry as filepath.Join(root, relative path)
WalkPath(e) == IF e.rel = <<>> THEN pgDataDirectory ELSE Join(pgDataDirectory, e.rel)

\* for every entry of every tree: the path the walk passes to the callback
\* (walk), the relative path the callback computes from it with
\* strings.TrimPrefix(path, *a.pgDataDirectory) (file), and the cleaned
\* absolute path os.Stat finds the entry under (stat)
PathTable ==
    { [t |-> q[1], i |-> q[2],
       walk |-> WalkPath(Trees[q[1]][q[2]]),
       file |-> TrimPrefix(WalkPath(Trees[q[1]][q[2]]), pgDataDirectory),
       stat |-> Clean(WalkPath(Trees[q[1]][q[2]]))] :
      q \in UNION { {<<t, i>> : i \in 1..Len(Trees[t])} : t \in 1..Len(Trees) } }

\* ------------------------------------------------------------------- storage
\* payloads of objects
Empty     == [kind |-> "text", of |-> <<>>]
Text(s)   == [kind |-> "text", of |-> s]
Raw(p)    == [kind |-> "raw", of |-> p]
Lz4(p)    == [kind |-> "lz4", of |-> p]
labelFile == Text(<<"L">>)
mapBlob   == <<"M">>

\* a successful storage.PutString / storage.Put: create or overwrite
PutObject(s, k, v) == [x \in DOMAIN s \cup {k} |-> IF x = k THEN v ELSE s[x]]

NoObjects == [x \in {} |-> Empty]

\* an earlier backup that completed: placeholder, marker, latest pointer
OldComplete ==
    PutObject(PutObject(PutObject(NoObjects, oldName \o Sep, Empty),
                        getSuccessfulMarker(oldName), Empty),
              latestKey, Text(oldName))

\* the states of storage createBackup may be invoked in
InitialStores == { NoObjects, OldComplete, PutObject(OldComplete, backupKey, Empty) }

\* --------------------------------------------------------------------- state
VARIABLES
    storage,   \* the object store: key -> payload
    store0,    \* the object store as it was when createBackup was invoked
    tree,      \* which data directory this run backs up (index into Trees)
    gone,      \* entries the server has removed since the run began
    pc,        \* position of the control thread in createBackup / uploadFiles
    result,    \* return value of createBackup, -1 while it has not returned
    exited,    \* the process has ended (os.Exit, logger.Fatal or a crash)
    conn,      \* the connection of startBackup: "none", "open", "closed"
    mapFile,   \* third column scanned from pg_stop_backup(false)
    idx,       \* the entry filepath.Walk visits next
    items,     \* items counter of uploadFiles, then its return value
    walkErr,   \* filepath.Walk returned an error
    closed,    \* close(filesC) has happened
    wpc,       \* per worker: position in backupWorker
    wfile,     \* per worker: pgFile, the path received from filesC
    tmp,       \* temporary compressed files (by the path compressed)
    fatal,     \* a worker has called logger.Fatal
    seenGoneW, \* entries the walk callback saw with a not-exist error
    seenGoneK, \* paths whose os.Stat failed in a worker
    uploaded,  \* paths for which a worker's Put / PutString returned nil
    failures,  \* the steps that have reported an error so far
    exclusive, \* *a.backupExclusive, the --exclusive flag of src/create_backup.go
    stopOn,    \* the connection pg_stop_backup was issued on: "none", "start", "new"
    hb,        \* position of the goroutine stopBackup starts: "none", "select", "sleep", "done"
    werr,      \* per worker: err of a.storage.Put while the temporary file is still there
    skipped,   \* paths whose util.Compress failed
    peer       \* a second createBackup process with the same name: "absent", or
               \* its position "GetString", "PutString", "startBackup", "returned"

ctl  == <<pc, result, conn, mapFile, idx, items, walkErr, closed, stopOn, hb>>
pool == <<wpc, wfile, tmp, fatal, seenGoneK, uploaded, werr, skipped>>
env  == <<store0, tree, gone, exclusive, peer>>
vars == <<storage, store0, tree, gone, pc, result, exited, conn, mapFile, idx, items,
          walkErr, closed, wpc, wfile, tmp, fatal, seenGoneW, seenGoneK, uploaded, failures,
          exclusive, stopOn, hb, werr, skipped, peer>>

Workers == 1..NWorkers
Entries == Trees[tree]
Exists(k) == k \in DOMAIN storage

\* the runs explored: the scenario tree into each of the initial stores, the
\* legacy tree into a store that holds an earlier backup, and with the
\* exclusive flag the tree with backup_label on disk into an empty store
Invocation ==
    /\ storage \in InitialStores
    /\ store0 = storage
    /\ tree \in 1..Len(Trees)
    /\ tree = 2 => storage = OldComplete
    /\ gone = {}
    /\ pc = "GetString"
    /\ result = -1
    /\ exited = FALSE
    /\ conn = "none"
    /\ mapFile = <<>>
    /\ idx = 1
    /\ items = 0
    /\ walkErr = FALSE
    /\ closed = FALSE
    /\ wpc = [w \in Workers |-> "unborn"]
    /\ wfile = [w \in Workers |-> <<>>]
    /\ tmp = {}
    /\ fatal = FALSE
    /\ seenGoneW = {}
    /\ seenGoneK = {}
    /\ uploaded = {}
    /\ failures = {}
    /\ exclusive = (tree = 3)
    /\ exclusive => storage = NoObjects
    /\ stopOn = "none"
    /\ hb = "none"
    /\ werr = [w \in Workers |-> "nil"]
    /\ skipped = {}

\* one createBackup process
Init == Invocation /\ peer = "absent"

\* the error of storage.GetString(k): nil when the object is fetched, the
\* not-found condition when it is absent, or a failure of the fetch itself
GetStringErrors(k) == IF Exists(k) THEN {"nil", "failed"} ELSE {"notfound", "failed"}

\* createBackup returns r
Return(r) == pc' = "returned" /\ result' = r

\* ------------------------------------------------------------- createBackup
\* _, err := a.storage.GetString(backupKey); if err == nil { return 1 }
\* err is nil only when the object was fetched; it is non-nil when the key is
\* absent and when the fetch itself fails
CheckExisting ==
    /\ ~exited /\ pc = "GetString"
    /\ UNCHANGED failures
    /\ \E err \in GetStringErrors(backupKey) :
          IF err = "nil" THEN Return(1) ELSE pc' = "PutString" /\ result' = result
    /\ UNCHANGED <<storage, exited, conn, mapFile, idx, items, walkErr, closed, seenGoneW, stopOn, hb>>
    /\ UNCHANGED <<pool, env>>

\* if err := a.storage.PutString(backupKey, ""); err != nil { return 1 }
CreateFolder ==
    /\ ~exited /\ pc = "PutString"
    /\ UNCHANGED failures
    /\ storage' = PutObject(storage, backupKey, Empty)
    /\ pc' = "startBackup"
    /\ UNCHANGED <<result, exited, conn, mapFile, idx, items, walkErr, closed, seenGoneW, stopOn, hb>>
    /\ UNCHANGED <<pool, env>>

CreateFolderFailed ==
    /\ ~exited /\ pc = "PutString"
    /\ failures' = failures \cup {"PutString"}
    /\ Return(1)
    /\ UNCHANGED <<storage, exited, conn, mapFile, idx, items, walkErr, closed, seenGoneW, stopOn, hb>>
    /\ UNCHANGED <<pool, env>>

\* a startBackup that closes the connection in either mode
ConnAfterStartClosed(excl) == "closed"

\* the connection startBackup returns: open (part_000:109-111); with the
\* exclusive flag of src/create_backup.go:103-111, db.Close() first
ConnAfterStart(excl) == IF excl THEN "closed" ELSE "open"

\* db, err := a.startBackup(); if err != nil { return 1 }
\* on success the connection that ran pg_start_backup is returned
startBackup ==
    /\ ~exited /\ pc = "startBackup"
    /\ UNCHANGED failures
    /\ conn' = ConnAfterStart(exclusive)
    /\ pc' = "spawn"
    /\ UNCHANGED <<storage, result, exited, mapFile, idx, items, walkErr, closed, seenGoneW, stopOn, hb>>
    /\ UNCHANGED <<pool, env>>

\* sql.Open, db.Conn or the pg_start_backup query failed: return nil, err
startBackupFailed ==
    /\ ~exited /\ pc = "startBackup"
    /\ failures' = failures \cup {"startBackup"}
    /\ Return(1)
    /\ UNCHANGED <<storage, exited, conn, mapFile, idx, items, walkErr, closed, seenGoneW, stopOn, hb>>
    /\ UNCHANGED <<pool, env>>

\* --------------------------------------------------------------- uploadFiles
\* filesC := make(chan string); wg.Add(nWorkers); go a.backupWorker(filesC, wg)
SpawnWorkers ==
    /\ ~exited /\ pc = "spawn"
    /\ UNCHANGED failures
    /\ wpc' = [w \in Workers |-> "recv"]
    /\ pc' = "walk" /\ idx' = 1 /\ items' = 0
    /\ UNCHANGED <<storage, result, exited, conn, mapFile, walkErr, closed, seenGoneW, stopOn, hb>>
    /\ UNCHANGED <<wfile, tmp, fatal, seenGoneK, uploaded, werr, skipped, env>>

\* the error filepath.Walk passes to the callback for entry i: not-exist
\* when the entry has been removed since it was listed, otherwise nil or
\* some other failure of lstat / readdir
LstatErrors(i) == IF i \in gone THEN {"notexist"}
                  ELSE IF Entries[i].guarded THEN {"nil", "other"}
                  ELSE {"nil"}

\* a callback that returns every error it is passed, not-exist included
CallbackReturnsAnyErr(err) == err # "nil"

\* the callback's "if err != nil" branch: os.IsNotExist(err) returns nil,
\* anything else returns err
CallbackReturnsErr(err) == err # "nil" /\ err # "notexist"

\* file := strings.TrimPrefix(path, *a.pgDataDirectory), for entry i
RelativeFile(i) == (CHOOSE r \in PathTable : r.t = tree /\ r.i = i).file

\* callback with a not-exist error: logged, return nil, the walk goes on
WalkVanished ==
    /\ ~exited /\ pc = "walk" /\ idx <= Len(Entries)
    /\ UNCHANGED failures
    /\ \E err \in LstatErrors(idx) :
          /\ err # "nil"
          /\ ~CallbackReturnsErr(err)
    /\ idx' = idx + 1
    /\ seenGoneW' = seenGoneW \cup {idx}
    /\ UNCHANGED <<storage, pc, result, exited, conn, mapFile, items, walkErr, closed, stopOn, hb>>
    /\ UNCHANGED <<pool, env>>

\* callback returns err: filepath.Walk stops and returns it; uploadFiles
\* logs "Failed to walk data directory" and returns 1
WalkFailed ==
    /\ ~exited /\ pc = "walk" /\ idx <= Len(Entries)
    /\ failures' = failures \cup {"walk"}
    /\ \E err \in LstatErrors(idx) :
          /\ err # "nil"
          /\ CallbackReturnsErr(err)
    /\ walkErr' = TRUE
    /\ items' = 1
    /\ pc' = "stopBackup"
    /\ UNCHANGED <<storage, result, exited, conn, mapFile, idx, closed, seenGoneW, stopOn, hb>>
    /\ UNCHANGED <<pool, env>>

\* if a.ignoreFile(file) { return nil }
WalkIgnore ==
    /\ ~exited /\ pc = "walk" /\ idx <= Len(Entries)
    /\ UNCHANGED failures
    /\ "nil" \in LstatErrors(idx)
    /\ ignoreFile(RelativeFile(idx))
    /\ idx' = idx + 1
    /\ UNCHANGED <<storage, pc, result, exited, conn, mapFile, items, walkErr, closed, seenGoneW, stopOn, hb>>
    /\ UNCHANGED <<pool, env>>

\* a hand-off that completes although the worker is not at its receive
ReceivingOrBusy(w) == wpc[w] \notin {"unborn", "done"}

\* worker w is blocked in "pgFile, more := <-filesC"
Receiving(w) == wpc[w] = "recv"

\* filesC <- file; items++ : the send on the unbuffered channel completes
\* together with the receive of a worker waiting in "pgFile, more := <-filesC"
WalkSend(w) ==
    /\ ~exited /\ pc = "walk" /\ idx <= Len(Entries)
    /\ UNCHANGED failures
    /\ "nil" \in LstatErrors(idx)
    /\ ~ignoreFile(RelativeFile(idx))
    /\ Receiving(w)
    /\ wfile' = [wfile EXCEPT ![w] = RelativeFile(idx)]
    /\ wpc' = [wpc EXCEPT ![w] = "stat"]
    /\ items' = items + 1
    /\ idx' = idx + 1
    /\ UNCHANGED <<storage, pc, result, exited, conn, mapFile, walkErr, closed, seenGoneW, stopOn, hb>>
    /\ UNCHANGED <<tmp, fatal, seenGoneK, uploaded, werr, skipped, env>>

\* filepath.Walk returned nil; close(filesC)
CloseChannel ==
    /\ ~exited /\ pc = "walk" /\ idx > Len(Entries)
    /\ UNCHANGED failures
    /\ closed' = TRUE
    /\ pc' = "wait"
    /\ UNCHANGED <<storage, result, exited, conn, mapFile, idx, items, walkErr, seenGoneW, stopOn, hb>>
    /\ UNCHANGED <<pool, env>>

\* wg.Wait() returns when every worker has run its deferred wg.Done();
\* uploadFiles returns items
WaitWorkers ==
    /\ ~exited /\ pc = "wait"
    /\ UNCHANGED failures
    /\ \A w \in Workers : wpc[w] = "done"
    /\ pc' = "stopBackup"
    /\ UNCHANGED <<storage, result, exited, conn, mapFile, idx, items, walkErr, closed, seenGoneW, stopOn, hb>>
    /\ UNCHANGED <<pool, env>>

\* -------------------------------------------------------------- backupWorker
\* pgFilePath := filepath.Join(*a.pgDataDirectory, pgFile)
pgFilePath(w) == Join(pgDataDirectory, wfile[w])

\* the entry a path names, 0 when there is none (any more)
EntryAt(p) == LET m == {r \in PathTable : r.t = tree /\ r.stat = p}
              IN  IF m = {} THEN 0 ELSE (CHOOSE r \in m : TRUE).i

\* st, err := os.Stat(pgFilePath): 0 stands for err != nil
Stat(p) == IF EntryAt(p) \in gone THEN 0 ELSE EntryAt(p)

\* a key that is the relative path alone
ObjectKeyWithoutName(file) == file

\* key := filepath.Join(*a.backupName, pgFile)
ObjectKey(file) == Join(backupName, file)

\* a comparison that also compresses a file of exactly the threshold size
ShouldCompressAtThreshold(size) == size >= CompressThreshold

\* if st.Size() > int64(*a.compressThreshold)
ShouldCompress(size) == size > CompressThreshold

\* the key a file is uploaded under: key += lz4.Extension when compressed
FileKey(file, compressed) ==
    IF compressed THEN ObjectKey(file) \o Lz4Extension ELSE ObjectKey(file)

\* key += util.DirectoryExtension
DirKey(file) == ObjectKey(file) \o DirectoryExtension

\* back to "pgFile, more := <-filesC"
Continue(w) == /\ wpc' = [wpc EXCEPT ![w] = "recv"]
               /\ wfile' = [wfile EXCEPT ![w] = <<>>]

\* pgFile, more := <-filesC with the channel closed: return, wg.Done()
WorkerReturn(w) ==
    /\ ~exited /\ Receiving(w) /\ closed
    /\ UNCHANGED failures
    /\ wpc' = [wpc EXCEPT ![w] = "done"]
    /\ UNCHANGED <<storage, exited, seenGoneW, wfile, tmp, fatal, seenGoneK, uploaded, werr, skipped>>
    /\ UNCHANGED <<ctl, env>>

\* os.Stat failed: "Failed to stat file. Might have been removed"; continue
WorkerStatFailed(w) ==
    /\ ~exited /\ wpc[w] = "stat"
    /\ UNCHANGED failures
    /\ Stat(pgFilePath(w)) = 0
    /\ seenGoneK' = seenGoneK \cup {wfile[w]}
    /\ Continue(w)
    /\ UNCHANGED <<storage, exited, seenGoneW, tmp, fatal, uploaded, werr, skipped>>
    /\ UNCHANGED <<ctl, env>>

\* os.Stat succeeded: directory, file to compress, or file to upload as is
WorkerStat(w) ==
    /\ ~exited /\ wpc[w] = "stat"
    /\ UNCHANGED failures
    /\ Stat(pgFilePath(w)) # 0
    /\ LET st == Entries[Stat(pgFilePath(w))]
       IN  wpc' = [wpc EXCEPT ![w] =
                     IF st.kind = "dir" THEN "putDir"
                     ELSE IF ShouldCompress(st.size) THEN "compress"
                     ELSE "put"]
    /\ UNCHANGED <<storage, exited, seenGoneW, wfile, tmp, fatal, seenGoneK, uploaded, werr, skipped>>
    /\ UNCHANGED <<ctl, env>>

\* a.storage.PutString(key, "") for a directory returned nil; continue
WorkerPutDir(w) ==
    /\ ~exited /\ wpc[w] = "putDir"
    /\ UNCHANGED failures
    /\ storage' = PutObject(storage, DirKey(wfile[w]), Empty)
    /\ uploaded' = uploaded \cup {wfile[w]}
    /\ Continue(w)
    /\ UNCHANGED <<exited, seenGoneW, tmp, fatal, seenGoneK, werr, skipped>>
    /\ UNCHANGED <<ctl, env>>

\* logger.Fatal ends the process (os.Exit(1))
Fatal == fatal' = TRUE /\ exited' = TRUE

\* a.storage.PutString(key, "") for a directory failed: a.logger.Fatal
WorkerPutDirFailed(w) ==
    /\ ~exited /\ wpc[w] = "putDir"
    /\ failures' = failures \cup {"putDir"}
    /\ Fatal
    /\ UNCHANGED <<storage, seenGoneW, wpc, wfile, tmp, seenGoneK, uploaded, werr, skipped>>
    /\ UNCHANGED <<ctl, env>>

\* compressed, err = util.Compress(pgFilePath, tmpDirectory) returned nil
WorkerCompress(w) ==
    /\ ~exited /\ wpc[w] = "compress"
    /\ UNCHANGED failures
    /\ tmp' = tmp \cup {wfile[w]}
    /\ wpc' = [wpc EXCEPT ![w] = "put"]
    /\ UNCHANGED <<storage, exited, seenGoneW, wfile, fatal, seenGoneK, uploaded, werr, skipped>>
    /\ UNCHANGED <<ctl, env>>

\* a worker that does what the comment at part_000:301-302 announces: it
\* goes on to upload the uncompressed file
UploadUncompressed(w) == /\ wpc' = [wpc EXCEPT ![w] = "put"]
                         /\ wfile' = wfile

\* after "Failed to compress file": compressed = ""; continue
AfterCompressFailure(w) == Continue(w)

\* util.Compress failed: "Failed to compress file"; compressed = ""; continue
WorkerCompressFailed(w) ==
    /\ ~exited /\ wpc[w] = "compress"
    /\ failures' = failures \cup {"compress"}
    /\ skipped' = skipped \cup {wfile[w]}
    /\ AfterCompressFailure(w)
    /\ UNCHANGED <<storage, exited, seenGoneW, tmp, fatal, seenGoneK, uploaded, werr>>
    /\ UNCHANGED <<ctl, env>>

\* else-branch: err = a.storage.Put(key, pgFilePath, mtime) returned nil
WorkerUpload(w) ==
    /\ ~exited /\ wpc[w] = "put" /\ wfile[w] \notin tmp
    /\ UNCHANGED failures
    /\ storage' = PutObject(storage, FileKey(wfile[w], FALSE), Raw(wfile[w]))
    /\ uploaded' = uploaded \cup {wfile[w]}
    /\ Continue(w)
    /\ UNCHANGED <<exited, seenGoneW, tmp, fatal, seenGoneK, werr, skipped>>
    /\ UNCHANGED <<ctl, env>>

\* else-branch: a.storage.Put failed; if err != nil { a.logger.Fatal }
WorkerUploadFailed(w) ==
    /\ ~exited /\ wpc[w] = "put" /\ wfile[w] \notin tmp
    /\ failures' = failures \cup {"put"}
    /\ Fatal
    /\ UNCHANGED <<storage, seenGoneW, wpc, wfile, tmp, seenGoneK, uploaded, werr, skipped>>
    /\ UNCHANGED <<ctl, env>>

\* if compressed != "": err = a.storage.Put(key, compressed, mtime) has
\* returned, with nil (the object is stored) or with an error; the
\* temporary file is still there
WorkerUploadCompressed(w) ==
    /\ ~exited /\ wpc[w] = "put" /\ wfile[w] \in tmp
    /\ UNCHANGED failures
    /\ \E err \in {"nil", "failed"} :
          /\ werr' = [werr EXCEPT ![w] = err]
          /\ IF err = "nil"
             THEN /\ storage' = PutObject(storage, FileKey(wfile[w], TRUE), Lz4(wfile[w]))
                  /\ uploaded' = uploaded \cup {wfile[w]}
             ELSE UNCHANGED <<storage, uploaded>>
    /\ wpc' = [wpc EXCEPT ![w] = "remove"]
    /\ UNCHANGED <<exited, seenGoneW, wfile, tmp, fatal, seenGoneK, skipped>>
    /\ UNCHANGED <<ctl, env>>

\* util.MustRemoveFile(compressed, a.logger)
MustRemoveFile(t, f) == t \ {f}

\* util.MustRemoveFile(compressed, a.logger), then the error check with the
\* Put of the compressed file returned nil: next iteration
WorkerRemove(w) ==
    /\ ~exited /\ wpc[w] = "remove" /\ werr[w] = "nil"
    /\ UNCHANGED failures
    /\ tmp' = MustRemoveFile(tmp, wfile[w])
    /\ Continue(w)
    /\ UNCHANGED <<storage, exited, seenGoneW, fatal, seenGoneK, uploaded, werr, skipped>>
    /\ UNCHANGED <<ctl, env>>

\* util.MustRemoveFile(compressed, a.logger), then the error check with the
\* error of the Put of the compressed file: a.logger.Fatal
WorkerRemoveThenFatal(w) ==
    /\ ~exited /\ wpc[w] = "remove" /\ werr[w] = "failed"
    /\ failures' = failures \cup {"put"}
    /\ tmp' = MustRemoveFile(tmp, wfile[w])
    /\ Fatal
    /\ UNCHANGED <<storage, seenGoneW, wpc, wfile, seenGoneK, uploaded, werr, skipped>>
    /\ UNCHANGED <<ctl, env>>

\* ---------------------------------------------------------------- stopBackup
\* stopBackup(db) is entered: ctx, cancel := context.WithCancel(...);
\* defer cancel(); go func() { for { select ... } }(); then the query is
\* issued on the connection startBackup returned
StartHeartbeat ==
    /\ ~exited /\ pc = "stopBackup" /\ ~exclusive
    /\ UNCHANGED failures
    /\ hb' = "select"
    /\ stopOn' = "start"
    /\ pc' = "query"
    /\ UNCHANGED <<storage, result, exited, conn, mapFile, idx, items, walkErr, closed, seenGoneW>>
    /\ UNCHANGED <<pool, env>>

\* stopBackup has returned, so its deferred cancel() has run
StopBackupReturned == pc \in {"marker", "latest", "returned"}

\* case <-ctx.Done(): return / default: time.Sleep(60 * time.Second)
HeartbeatSelect ==
    /\ ~exited /\ hb = "select"
    /\ UNCHANGED failures
    /\ hb' = IF StopBackupReturned THEN "done" ELSE "sleep"
    /\ UNCHANGED <<storage, exited, seenGoneW>>
    /\ UNCHANGED <<pc, result, conn, mapFile, idx, items, walkErr, closed, stopOn>>
    /\ UNCHANGED <<pool, env>>

\* the sleep is over: a.logger.Info("Waiting for pg_stop_backup"), and back
\* to the select
HeartbeatLog ==
    /\ ~exited /\ hb = "sleep"
    /\ UNCHANGED failures
    /\ hb' = "select"
    /\ UNCHANGED <<storage, exited, seenGoneW>>
    /\ UNCHANGED <<pc, result, conn, mapFile, idx, items, walkErr, closed, stopOn>>
    /\ UNCHANGED <<pool, env>>

\* row.Scan of "SELECT * FROM pg_stop_backup(false)" returned nil; the
\* connection kept open since startBackup is closed
StopQuery ==
    /\ ~exited /\ pc = "query"
    /\ UNCHANGED failures
    /\ \E m \in {<<>>, mapBlob} : mapFile' = m
    /\ conn' = "closed"
    /\ pc' = "putLabel"
    /\ UNCHANGED <<storage, result, exited, idx, items, walkErr, closed, seenGoneW, stopOn, hb>>
    /\ UNCHANGED <<pool, env>>

\* row.Scan failed: stopBackup returns err, createBackup returns 1
StopQueryFailed ==
    /\ ~exited /\ pc = "query"
    /\ failures' = failures \cup {"stopBackup"}
    /\ Return(1)
    /\ UNCHANGED <<storage, exited, conn, mapFile, idx, items, walkErr, closed, seenGoneW, stopOn, hb>>
    /\ UNCHANGED <<pool, env>>

\* src/create_backup.go:123-135, exclusive: db, err := sql.Open(...) and
\* db.Query("SELECT pg_stop_backup()") returned nil; stopBackup returns nil
\* without a backup_label or tablespace_map upload
StopQueryExclusive ==
    /\ ~exited /\ pc = "stopBackup" /\ exclusive
    /\ UNCHANGED failures
    /\ stopOn' = "new"
    /\ pc' = "marker"
    /\ UNCHANGED <<storage, result, exited, conn, mapFile, idx, items, walkErr, closed, seenGoneW, hb>>
    /\ UNCHANGED <<pool, env>>

\* sql.Open or db.Query failed: stopBackup returns err, createBackup returns 1
StopQueryExclusiveFailed ==
    /\ ~exited /\ pc = "stopBackup" /\ exclusive
    /\ failures' = failures \cup {"stopBackup"}
    /\ Return(1)
    /\ UNCHANGED <<storage, exited, conn, mapFile, idx, items, walkErr, closed, seenGoneW, stopOn, hb>>
    /\ UNCHANGED <<pool, env>>

\* a stopBackup that uploads tablespace_map whatever the third column is
HasMapAlways(m) == TRUE

\* if mapFile != ""
HasMap(m) == m # <<>>

\* a.storage.PutString(backupName + "/backup_label", labelFile)
PutLabel ==
    /\ ~exited /\ pc = "putLabel"
    /\ UNCHANGED failures
    /\ storage' = PutObject(storage, labelKey, labelFile)
    /\ pc' = IF HasMap(mapFile) THEN "putMap" ELSE "marker"
    /\ UNCHANGED <<result, exited, conn, mapFile, idx, items, walkErr, closed, seenGoneW, stopOn, hb>>
    /\ UNCHANGED <<pool, env>>

PutLabelFailed ==
    /\ ~exited /\ pc = "putLabel"
    /\ failures' = failures \cup {"putLabel"}
    /\ Return(1)
    /\ UNCHANGED <<storage, exited, conn, mapFile, idx, items, walkErr, closed, seenGoneW, stopOn, hb>>
    /\ UNCHANGED <<pool, env>>

\* if mapFile != "" { a.storage.PutString(backupName + "/tablespace_map", mapFile) }
PutMap ==
    /\ ~exited /\ pc = "putMap"
    /\ UNCHANGED failures
    /\ storage' = PutObject(storage, mapKey, Text(mapFile))
    /\ pc' = "marker"
    /\ UNCHANGED <<result, exited, conn, mapFile, idx, items, walkErr, closed, seenGoneW, stopOn, hb>>
    /\ UNCHANGED <<pool, env>>

PutMapFailed ==
    /\ ~exited /\ pc = "putMap"
    /\ failures' = failures \cup {"putMap"}
    /\ Return(1)
    /\ UNCHANGED <<storage, exited, conn, mapFile, idx, items, walkErr, closed, seenGoneW, stopOn, hb>>
    /\ UNCHANGED <<pool, env>>

\* ------------------------------------------------------ marker and pointer
\* a.putSuccessfulMarker(*a.backupName) returned nil
PutMarker ==
    /\ ~exited /\ pc = "marker"
    /\ UNCHANGED failures
    /\ storage' = PutObject(storage, getSuccessfulMarker(backupName), Empty)
    /\ pc' = "latest"
    /\ UNCHANGED <<result, exited, conn, mapFile, idx, items, walkErr, closed, seenGoneW, stopOn, hb>>
    /\ UNCHANGED <<pool, env>>

\* a.putSuccessfulMarker failed: the error is logged and createBackup goes
\* on to the LATEST marker (the if-body has no return)
PutMarkerFailed ==
    /\ ~exited /\ pc = "marker"
    /\ failures' = failures \cup {"marker"}
    /\ pc' = "latest"
    /\ UNCHANGED <<storage, result, exited, conn, mapFile, idx, items, walkErr, closed, seenGoneW, stopOn, hb>>
    /\ UNCHANGED <<pool, env>>

\* a.updateLatest(*a.backupName) returned nil; "Backup successfully
\* completed"; return 0
UpdateLatest ==
    /\ ~exited /\ pc = "latest"
    /\ UNCHANGED failures
    /\ storage' = PutObject(storage, latestKey, Text(backupName))
    /\ Return(0)
    /\ UNCHANGED <<exited, conn, mapFile, idx, items, walkErr, closed, seenGoneW, stopOn, hb>>
    /\ UNCHANGED <<pool, env>>

UpdateLatestFailed ==
    /\ ~exited /\ pc = "latest"
    /\ failures' = failures \cup {"latest"}
    /\ Return(1)
    /\ UNCHANGED <<storage, exited, conn, mapFile, idx, items, walkErr, closed, seenGoneW, stopOn, hb>>
    /\ UNCHANGED <<pool, env>>

\* ------------------------------------------------------------- environment
\* the process ends with createBackup's return value as its exit code;
\* goroutines still running end with it
ProcessExit ==
    /\ ~exited /\ pc = "returned"
    /\ UNCHANGED failures
    /\ exited' = TRUE
    /\ UNCHANGED <<storage, seenGoneW>>
    /\ UNCHANGED <<ctl, pool, env>>

\* the running server removes a volatile file that the walker has not
\* visited yet or that a worker is about to stat
Vanish(i) ==
    /\ ~exited
    /\ UNCHANGED failures
    /\ Entries[i].volatile /\ i \notin gone
    /\ \/ pc = "walk" /\ idx <= i
       \/ \E w \in Workers : wpc[w] = "stat" /\ EntryAt(pgFilePath(w)) = i
    /\ gone' = gone \cup {i}
    /\ UNCHANGED <<storage, store0, tree, exited, seenGoneW, exclusive, peer>>
    /\ UNCHANGED <<ctl, pool>>

Next ==
    \/ CheckExisting
    \/ CreateFolder
    \/ CreateFolderFailed
    \/ startBackup
    \/ startBackupFailed
    \/ SpawnWorkers
    \/ WalkVanished
    \/ WalkFailed
    \/ WalkIgnore
    \/ \E w \in Workers : WalkSend(w)
    \/ CloseChannel
    \/ WaitWorkers
    \/ \E w \in Workers : WorkerReturn(w)
    \/ \E w \in Workers : WorkerStatFailed(w)
    \/ \E w \in Workers : WorkerStat(w)
    \/ \E w \in Workers : WorkerPutDir(w)
    \/ \E w \in Workers : WorkerPutDirFailed(w)
    \/ \E w \in Workers : WorkerCompress(w)
    \/ \E w \in Workers : WorkerCompressFailed(w)
    \/ \E w \in Workers : WorkerUpload(w)
    \/ \E w \in Workers : WorkerUploadFailed(w)
    \/ \E w \in Workers : WorkerUploadCompressed(w)
    \/ \E w \in Workers : WorkerRemove(w)
    \/ \E w \in Workers : WorkerRemoveThenFatal(w)
    \/ StartHeartbeat
    \/ HeartbeatSelect
    \/ HeartbeatLog
    \/ StopQuery
    \/ StopQueryFailed
    \/ StopQueryExclusive
    \/ StopQueryExclusiveFailed
    \/ PutLabel
    \/ PutLabelFailed
    \/ PutMap
    \/ PutMapFailed
    \/ PutMarker
    \/ PutMarkerFailed
    \/ UpdateLatest
    \/ UpdateLatestFailed
    \/ ProcessExit
    \/ \E i \in 1..Len(Entries) : Vanish(i)

Spec == Init /\ [][Next]_vars

\* ------------------------------------------------- a second createBackup
\* Another process runs createBackup with the same name against the same
\* storage.  It is the one of the two whose existence check comes second,
\* it is followed to the end of its reservation step (part_000:27-41), and
\* its GetString is taken not to fail: it reports the key when it is there.

\* _, err := a.storage.GetString(backupKey); if err == nil { return 1 }
PeerCheckExisting ==
    /\ peer = "GetString" /\ pc # "GetString"
    /\ peer' = IF Exists(backupKey) THEN "returned" ELSE "PutString"
    /\ UNCHANGED <<storage, exited, seenGoneW, failures, store0, tree, gone, exclusive>>
    /\ UNCHANGED <<ctl, pool>>

\* a.storage.PutString(backupKey, "") returned nil: on to startBackup
PeerCreateFolder ==
    /\ peer = "PutString"
    /\ storage' = PutObject(storage, backupKey, Empty)
    /\ peer' = "startBackup"
    /\ UNCHANGED <<exited, seenGoneW, failures, store0, tree, gone, exclusive>>
    /\ UNCHANGED <<ctl, pool>>

\* a.storage.PutString(backupKey, "") failed: return 1
PeerCreateFolderFailed ==
    /\ peer = "PutString"
    /\ peer' = "returned"
    /\ UNCHANGED <<storage, exited, seenGoneW, failures, store0, tree, gone, exclusive>>
    /\ UNCHANGED <<ctl, pool>>

RaceInit == Invocation /\ peer = "GetString"

RaceNext ==
    \/ Next
    \/ PeerCheckExisting
    \/ PeerCreateFolder
    \/ PeerCreateFolderFailed

\* two createBackup processes with the same name
RaceSpec == RaceInit /\ [][RaceNext]_vars

\* a step of the goroutine that runs createBackup (the walk callback's send
\* included: it completes together with a worker's receive)
ControlStep ==
    \/ CheckExisting \/ CreateFolder \/ CreateFolderFailed
    \/ startBackup \/ startBackupFailed
    \/ SpawnWorkers \/ WalkVanished \/ WalkFailed \/ WalkIgnore
    \/ \E w \in Workers : WalkSend(w)
    \/ CloseChannel \/ WaitWorkers
    \/ StartHeartbeat \/ StopQuery \/ StopQueryFailed
    \/ StopQueryExclusive \/ StopQueryExclusiveFailed
    \/ PutLabel \/ PutLabelFailed \/ PutMap \/ PutMapFailed
    \/ PutMarker \/ PutMarkerFailed \/ UpdateLatest \/ UpdateLatestFailed

\* a step of the goroutine backupWorker number w
WorkerStep(w) ==
    \/ WorkerReturn(w) \/ WorkerStatFailed(w) \/ WorkerStat(w)
    \/ WorkerPutDir(w) \/ WorkerPutDirFailed(w)
    \/ WorkerCompress(w) \/ WorkerCompressFailed(w)
    \/ WorkerUpload(w) \/ WorkerUploadFailed(w) \/ WorkerUploadCompressed(w)
    \/ WorkerRemove(w) \/ WorkerRemoveThenFatal(w)

\* the Go scheduler: a goroutine that can run is eventually run, and a
\* process whose main function has returned exits
FairSpec ==
    /\ Spec
    /\ WF_vars(ControlStep)
    /\ \A w \in Workers : WF_vars(WorkerStep(w))
    /\ WF_vars(HeartbeatSelect \/ HeartbeatLog)
    /\ WF_vars(ProcessExit)

\* -------------------------------------------------------------------- claims
marker == getSuccessfulMarker(backupName)
MarkerWritten == Exists(marker)
LatestIsName == Exists(latestKey) /\ storage[latestKey] = Text(backupName)
Returned(r) == pc = "returned" /\ result = r
AllWorkersReturned == \A w \in Workers : wpc[w] = "done"

\* C1: when the top-level key of the name exists at invocation, createBackup
\* returns non-zero before any later activity: nothing is written, no
\* session is started, no worker is spawned, no marker or pointer is written.
C1_ExistingNameRejected ==
    backupKey \in DOMAIN store0 =>
        /\ pc \in {"GetString", "returned"}
        /\ pc = "returned" => result = 1
        /\ storage = store0
        /\ conn = "none"
        /\ \A w \in Workers : wpc[w] = "unborn"

\* C2: the success marker and the latest pointer are written only when the
\* walker has finished, every worker has returned without a fatal error and
\* stop-backup has returned successfully, on every exit path of uploadFiles.
C2_MarkersOnlyAfterPipeline ==
    (MarkerWritten \/ LatestIsName) =>
        /\ pc \in {"latest", "returned"}
        /\ AllWorkersReturned
        /\ ~fatal
        /\ conn = "closed"

\* C3: if the latest pointer names the backup of this run, the success
\* marker of that backup exists.
C3_LatestImpliesMarker == LatestIsName => MarkerWritten

\* C4: once a worker's Put or PutString has failed, the process has ended
\* and neither the success marker nor the latest pointer of this name is
\* written, whatever the other workers and the control thread did.
C4_FatalUploadNoMarkers ==
    fatal => exited /\ ~MarkerWritten /\ ~LatestIsName

\* C5: after a walk error other than not-exist, createBackup does not
\* return 0 and writes neither the success marker nor the latest pointer.
C5_WalkErrorFailsRun ==
    walkErr => ~Returned(0) /\ ~MarkerWritten /\ ~LatestIsName

\* C6: once one of Begin, the upload pipeline, End (with its artifact
\* uploads), the success-marker write or the latest-pointer write has
\* failed, createBackup performs no later step and its result is non-zero.
C6_FailedStepEndsRun ==
    failures \cap {"startBackup", "putDir", "put", "stopBackup", "putLabel",
                   "putMap", "marker", "latest"} # {} =>
        \/ exited /\ result # 0
        \/ Returned(1)

\* the key the specification derives for entry e: <name>/<relative path>,
\* with the directory suffix for a directory and the compression suffix for
\* a file larger than the threshold
DerivedKey(e) ==
    IF e.kind = "dir" THEN Join(backupName, e.rel) \o DirectoryExtension
    ELSE IF e.size > CompressThreshold THEN backupName \o Sep \o e.rel \o Lz4Extension
    ELSE backupName \o Sep \o e.rel

\* C7: whenever createBackup returns 0, every entry of the data directory
\* that matches no ignore prefix has an object at its derived key, the
\* success marker exists and the latest pointer names the backup.
C7_ReturnZeroMeansComplete ==
    Returned(0) =>
        /\ \A i \in 1..Len(Entries) :
              (i \notin gone /\ ~ignoreFile(Entries[i].rel)) => Exists(DerivedKey(Entries[i]))
        /\ MarkerWritten
        /\ LatestIsName

\* the control thread takes a step from a state in which the walk is at an
\* entry that has been removed
WalkerMeetsVanished ==
    /\ pc = "walk" /\ idx <= Len(Entries) /\ idx \in gone
    /\ <<pc, idx, items, walkErr>>' # <<pc, idx, items, walkErr>>

\* worker w takes a step from a state in which its os.Stat fails
WorkerMeetsVanished(w) ==
    /\ wpc[w] = "stat" /\ Stat(pgFilePath(w)) = 0
    /\ wpc'[w] # "stat"

\* C8: a path that has disappeared is skipped without failing the run.  In
\* the walker the callback returns nil: the walk stays in progress and moves
\* to the next entry, nothing is sent and nothing is written.  In a worker
\* the failed stat sends the worker back to the receive with no object
\* written and the process still running.
C8_VanishedPathSkipped ==
    [][ /\ WalkerMeetsVanished =>
              /\ pc' = "walk" /\ idx' = idx + 1
              /\ ~walkErr' /\ items' = items
              /\ storage' = storage /\ wpc' = wpc /\ ~exited'
        /\ \A w \in Workers :
              WorkerMeetsVanished(w) =>
                  /\ wpc'[w] = "recv"
                  /\ storage' = storage /\ ~exited' /\ ~fatal'
      ]_vars

\* a run in which the walker and a worker each met a vanished path and that
\* still wrote the success marker and the latest pointer and returned 0
C8_Witness ==
    /\ seenGoneW # {} /\ seenGoneK # {}
    /\ Returned(0) /\ MarkerWritten /\ LatestIsName

\* C9: a file larger than the threshold is stored under <name>/<path> plus
\* the compression suffix and under no key without it; a file at or below
\* the threshold is stored under <name>/<path> without the suffix; a
\* directory is stored under a key with the directory suffix, with an empty
\* payload.
C9_SuffixBySizeAndKind ==
    \A i \in 1..Len(Entries) :
        LET e     == Entries[i]
            plain == backupName \o Sep \o e.rel
            done  == e.rel \in uploaded
        IN  /\ (e.kind = "file" /\ e.size > CompressThreshold) =>
                  /\ ~Exists(plain)
                  /\ done => /\ Exists(plain \o Lz4Extension)
                              /\ storage[plain \o Lz4Extension] = Lz4(e.rel)
            /\ (e.kind = "file" /\ e.size <= CompressThreshold) =>
                  /\ ~Exists(plain \o Lz4Extension)
                  /\ done => /\ Exists(plain)
                              /\ storage[plain] = Raw(e.rel)
            /\ e.kind = "dir" =>
                  /\ ~Exists(Join(backupName, e.rel))
                  /\ done => /\ Exists(Join(backupName, e.rel) \o DirectoryExtension)
                              /\ storage[Join(backupName, e.rel) \o DirectoryExtension] = Empty

\* the legacy tree with its file above the threshold, its file of exactly
\* the threshold size, its small file and its empty directory all uploaded
C9_Witness ==
    /\ tree = 2
    /\ { <<"c","o","r","e">>,
         <<"p","g","_","h","b","a",".","c","o","n","f">>,
         <<"P","G","_","V","E","R","S","I","O","N">>,
         <<"p","g","_","t","b","l","s","p","c">> } \subseteq uploaded

\* relative paths of the scenario
scenarioHeapFile == <<"b","a","s","e","/","1","/","1","6","3","8","4">>
scenarioWalDir   == <<"p","g","_","w","a","l">>
scenarioSlotDir  == <<"p","g","_","r","e","p","l","s","l","o","t">>

\* no object of this backup has a key under the directory (or file) rel
NothingStoredUnder(rel) ==
    \A k \in DOMAIN storage :
        /\ ~HasPrefix(k, backupName \o Sep \o rel \o Sep)
        /\ ~HasPrefix(k, backupName \o Sep \o rel \o <<".">>)
        /\ k # backupName \o Sep \o rel

\* C10: a worker only ever holds a path that matches no ignore prefix, so
\* nothing is stored for the operational-log directory, the process-id
\* file, the replication-slot directory or the transaction-log directory
\* (pg_xlog before version 10, pg_wal since); and a faultless run over the
\* scenario ends with the compressed heap file, backup_label, the
\* placeholder, the success marker and the latest pointer, and without an
\* object for pg_replslot/ or for the file under pg_wal/.
C10_IgnoredPathsNeverStored ==
    /\ \A w \in Workers :
          wpc[w] \in {"stat", "putDir", "compress", "put"} => ~ignoreFile(wfile[w])
    /\ NothingStoredUnder(<<"l","o","g">>)
    /\ NothingStoredUnder(<<"p","o","s","t","m","a","s","t","e","r",".","p","i","d">>)
    /\ NothingStoredUnder(scenarioSlotDir)
    /\ NothingStoredUnder(<<"p","g","_","x","l","o","g">>)
    /\ \A k \in DOMAIN storage : ~HasPrefix(k, backupName \o Sep \o scenarioWalDir \o Sep)
    /\ (tree = 1 /\ Returned(0) /\ failures = {} /\ gone = {}) =>
          /\ Exists(backupName \o Sep \o scenarioHeapFile \o Lz4Extension)
          /\ Exists(labelKey)
          /\ Exists(backupKey)
          /\ MarkerWritten
          /\ LatestIsName

\* pg_stop_backup has been issued
EndIssued == stopOn # "none"

\* C11: the phases of createBackup follow one another in the order
\* existence check, placeholder, Begin, first upload, return of the last
\* worker, End, success marker, latest pointer.  The placeholder is there
\* when Begin has returned; no worker exists, and nothing is uploaded,
\* before Begin has returned; End is issued only when every worker has
\* returned; marker and pointer are written only after End was issued.
C11_PhaseOrder ==
    /\ conn # "none" => Exists(backupKey)
    /\ (uploaded # {} \/ \E w \in Workers : wpc[w] # "unborn") => conn # "none"
    /\ EndIssued => AllWorkersReturned
    /\ (MarkerWritten \/ LatestIsName) => EndIssued

\* C13: when uploadFiles has returned and stopBackup is about to be called,
\* the walk has visited every entry, filesC is closed and every worker has
\* returned: none is blocked on the channel or at stat, compress or upload.
C13_UploadFilesJoinsWorkers ==
    pc = "stopBackup" =>
        /\ idx > Len(Entries)
        /\ closed
        /\ AllWorkersReturned

\* C14: whichever way the walk ends, normally or on an enumeration error,
\* under fair scheduling either a worker reports a fatal error or every
\* worker leaves its receive and returns and the upload phase is over.
C14_ConsumersUnblocked ==
    (pc = "walk") ~> (fatal \/ (AllWorkersReturned /\ pc \notin {"walk", "wait"}))

\* C12: in non-exclusive mode, once End has succeeded backup_label holds the
\* label returned by pg_stop_backup and tablespace_map exists if and only
\* if the returned map is non-empty, with that map as its payload; this is
\* so whenever the marker or the pointer is written; a failed write of
\* either artifact makes createBackup return 1 with neither marker nor
\* pointer.  In exclusive mode End runs on a new connection and writes no
\* artifact: backup_label, if stored, is the file a worker uploaded, and
\* tablespace_map is not stored.
C12_StopBackupArtifacts ==
    /\ ~exclusive =>
          /\ (pc \in {"marker", "latest"} \/ MarkerWritten \/ LatestIsName) =>
                /\ Exists(labelKey) /\ storage[labelKey] = labelFile
                /\ Exists(mapKey) <=> mapFile # <<>>
          /\ Exists(mapKey) => mapFile # <<>> /\ storage[mapKey] = Text(mapFile)
          /\ failures \cap {"putLabel", "putMap"} # {} =>
                Returned(1) /\ ~MarkerWritten /\ ~LatestIsName
    /\ exclusive =>
          /\ stopOn \in {"none", "new"}
          /\ pc \notin {"query", "putLabel", "putMap"}
          /\ Exists(labelKey) => storage[labelKey] = Raw(SubSeq(labelKey, Len(backupKey) + 1, Len(labelKey)))
          /\ ~Exists(mapKey)
          /\ (MarkerWritten \/ LatestIsName) => stopOn = "new"

\* a non-exclusive run that returned 0 after pg_stop_backup returned a
\* tablespace map
C12_Witness ==
    /\ ~exclusive /\ Returned(0) /\ mapFile # <<>>
    /\ Exists(labelKey) /\ Exists(mapKey) /\ MarkerWritten

\* workers that hold a path: between the receive of it and the next receive
Busy == { w \in Workers : wpc[w] \in {"stat", "putDir", "compress", "put", "remove"} }

\* emitted paths whose processing is over
Finished == (uploaded \cup seenGoneK \cup skipped) \ { wfile[w] : w \in Busy }

\* C15: while the walk and the wait for the workers last, every path the
\* walker has emitted is either finished or held by exactly one worker, so
\* the number of emitted and unfinished paths is the number of busy
\* workers, at most N; no two workers hold the same path.
C15_RendezvousHandOff ==
    /\ (pc \in {"walk", "wait"} /\ ~fatal) => items = Cardinality(Finished) + Cardinality(Busy)
    /\ Cardinality(Busy) <= NWorkers
    /\ \A v, w \in Busy : v # w => wfile[v] # wfile[w]

\* every worker holds a path and the walker is blocked sending the next one
C15_Witness ==
    /\ pc = "walk" /\ idx <= Len(Entries)
    /\ "nil" \in LstatErrors(idx) /\ ~ignoreFile(RelativeFile(idx))
    /\ Busy = Workers
    /\ items = NWorkers + Cardinality(Finished)
    /\ Finished # {}

\* C16: when the process has ended, no temporary compressed file is left
\* of a worker whose upload attempt has returned.
C16_NoTemporaryFileLeft ==
    exited => \A w \in Workers : wpc[w] = "remove" => wfile[w] \notin tmp

C18_ConnectionKeptOpen ==
    ~exclusive =>
        /\ pc \in {"spawn", "walk", "wait", "stopBackup", "query"} => conn = "open"
        /\ (\E w \in Workers : wpc[w] \notin {"unborn", "done"}) /\ ~EndIssued => conn = "open"
        /\ stopOn \in {"none", "start"}
        /\ conn = "closed" =>
              /\ stopOn = "start" /\ "stopBackup" \notin failures
              /\ pc \in {"putLabel", "putMap", "marker", "latest", "returned"}

\* a non-exclusive run whose workers uploaded files and whose connection
\* was closed after pg_stop_backup returned on it
C18_Witness ==
    /\ ~exclusive /\ uploaded # {} /\ AllWorkersReturned
    /\ stopOn = "start" /\ conn = "closed" /\ Returned(0)

\* C19: the goroutine of stopBackup logs "Waiting for pg_stop_backup" only
\* while stopBackup has not returned.
C19_HeartbeatOnlyWhileWaiting ==
    [][(hb = "sleep" /\ hb' = "select") => ~StopBackupReturned]_vars

\* the run has failed or aborted without having written the latest pointer
FailedBeforeLatest == result # 0 /\ (pc = "returned" \/ exited)

\* the latest pointer is as it was when createBackup was invoked
LatestAsBefore ==
    /\ Exists(latestKey) <=> latestKey \in DOMAIN store0
    /\ Exists(latestKey) => storage[latestKey] = store0[latestKey]

\* the keys createBackup for this name may write
OwnKey(k) ==
    \/ HasPrefix(k, backupKey)
    \/ k = backupName \o DirectoryExtension
    \/ k = marker
    \/ k = latestKey

\* no object under another name or another marker is written, changed or
\* deleted
OthersUntouched ==
    /\ \A k \in DOMAIN store0 :
          Exists(k) /\ (~OwnKey(k) => storage[k] = store0[k])
    /\ \A k \in DOMAIN storage : k \notin DOMAIN store0 => OwnKey(k)

\* the placeholder is in place once its write has returned nil
PlaceholderStays ==
    (pc \notin {"GetString", "PutString"} /\ "PutString" \notin failures) => Exists(backupKey)

Proceeded ==
    pc = "startBackup" \/ conn # "none" \/ "startBackup" \in failures

\* the second process is past its reservation step
PeerProceeded == peer = "startBackup"

\* C21: of two createBackup processes with the same name that run against
\* the same storage, at most one gets past the existence check and the
\* placeholder write to startBackup, in every interleaving of their
\* GetString and PutString calls.
C21_AtMostOneProceeds == ~(Proceeded /\ PeerProceeded)

\* C22: createBackup goes from the existence check to the placeholder write
\* only from a state in which GetString reports not-found, that is with the
\* key absent; with the key present (and GetString failing with another
\* error) it writes nothing and starts no session.
C22_ProceedsOnlyOnNotFound ==
    [][(pc = "GetString" /\ pc' # "GetString") =>
          \/ ~Exists(backupKey) /\ pc' = "PutString"
          \/ Exists(backupKey) /\ Returned(1)' /\ storage' = storage /\ conn' = "none"]_vars

====
